---------------------------- MODULE Spec2Model ----------------------------
(***************************************************************************)
(* Load generator of hsuan1117/zhuanti: the producer/consumer harness of   *)
(* src/bench.py and src/experiment.py (run_test, the worker loop,          *)
(* send_auth_request, the statistics) and the percentile computations.     *)
(*                                                                         *)
(* Spec      one step of run_test with its dispatcher and worker threads   *)
(* FairSpec  Spec with every thread and the clock scheduled fairly         *)
(* SpecPct   the percentile computations, as pure functions                *)
(* SpecRamp  the ramp loop of bench.py main, a call of run_test being one  *)
(*           step                                                          *)
(* SpecPerf  src/perf.py: main, its workers and the retries of             *)
(*           send_auth_request                                             *)
(* SpecCat   categorize_response_time of bench.py, as a pure function      *)
(*                                                                         *)
(* Time is the value of time.monotonic() in whole seconds, counted from    *)
(* the start of the current step of main's loop: the program only ever     *)
(* uses differences of two clock readings taken within one step.  The      *)
(* comparisons of the dispatcher (interval = 1.0 / rps) are kept exact by  *)
(* multiplying both sides by rps.                                          *)
(***************************************************************************)
EXTENDS Integers, Sequences, FiniteSets, TLC

\* ------------------------------------------------------------- bounds
MaxRps      == 3   \* target rates 0..MaxRps
MaxDuration == 1   \* step durations 0..MaxDuration seconds
MaxWorkers  == 2   \* pool sizes 1..MaxWorkers
MaxTasks    == 3   \* rps * duration never above this
Overrun     == 1   \* the clock runs this far past test_end_time
MaxSamples  == 4   \* percentile inputs hold up to this many durations
MaxDur      == 3   \* percentile inputs' durations are 1..MaxDur
MaxPackets  == 3   \* perf.py sends 0..MaxPackets packets
MaxParallel == 2   \* perf.py runs 1..MaxParallel workers
MaxRetries  == 3   \* max_retries is 0..MaxRetries
MaxMs       == 1100  \* categorized durations are 0..MaxMs milliseconds

VARIABLES
    variant,            \* "bench" (src/bench.py) or "experiment" (src/experiment.py)
    duration,           \* run_test's duration argument
    workers,            \* run_test's workers argument
    rps,                \* run_test's rps argument for the current step
    now,                \* time.monotonic()
    pc,                 \* position of the main thread (main and run_test)
    i,                  \* run_test's loop index
    nsent,              \* sentinels put so far (second loop of run_test)
    start_time,         \* run_test's start_time
    task_queue,         \* queue.Queue(maxsize = workers * 2)
    wpc,                \* position of each worker thread
    wtask,              \* the task a worker holds
    wloc,               \* send_auth_request's locals: pkt_id, start_time, status, duration
    packet_id_counter,  \* bench.py global
    stats,              \* global stats (the four counters and the bucket map)
    results,            \* bench.py global results
    exp_times,          \* experiment.py stats['response_times'] (a list)
    enqueued,           \* history: every item the dispatcher put, in order
    dequeued,           \* history: every item the workers got, in order
    put_time,           \* history: the clock at the put of each task
    assigned,           \* history: (task, pkt_id) in the order packet_id_lock was taken
    truncated,          \* history: the dispatch loop was left by its break
    pct_in,             \* input of the percentile computation (a list of durations)
    pct_out,            \* its result
    start_rps,          \* ramp mode: args.start_rps
    step_rps,           \* ramp mode: args.step_rps
    max_rps,            \* ramp mode: args.max_rps
    slo_ms,             \* ramp mode: args.slo_ms
    ramp_k,             \* ramp mode: iterations of the for loop begun so far
    step_recs,          \* history: the records the current step's run_test produced
    executed,           \* history: the rps of every call of run_test, in order
    evaluated,          \* history: every SLO check, in order: rps, compared, p95
    report,             \* history: what the ramp printed, in order: kind, rps
    perf_count,         \* perf.py: args.count (total_packets)
    perf_parallel,      \* perf.py: args.parallel (parallel_clients)
    perf_retries,       \* perf.py: max_retries of send_auth_request
    perf_pc,            \* perf.py: position of main
    perf_i,             \* perf.py: main's loop index
    perf_id,            \* perf.py: main's current_id
    pw,                 \* perf.py: each worker's position and locals
    perf_stats,         \* perf.py: global stats
    perf_results,       \* perf.py: global results
    perf_calls,         \* history: the calls of send_auth_request that returned
    cat_in,             \* input of categorize_response_time, in milliseconds
    cat_out             \* its result

runvars == <<variant, duration, workers, rps, now, pc, i, nsent, start_time,
             task_queue, wpc, wtask, wloc, packet_id_counter, stats, results,
             exp_times, enqueued, dequeued, put_time, assigned, truncated>>

pctvars == <<pct_in, pct_out>>

rampvars == <<start_rps, step_rps, max_rps, slo_ms, ramp_k, step_recs,
              executed, evaluated, report>>

perfvars == <<perf_count, perf_parallel, perf_retries, perf_pc, perf_i, perf_id,
              pw, perf_stats, perf_results, perf_calls>>

catvars == <<cat_in, cat_out>>

\* the variables run_test and its threads leave alone
othervars == <<pctvars, rampvars, perfvars, catvars>>

vars == <<runvars, othervars>>

Workers == 1..MaxWorkers

\* The shutdown sentinel (None); tasks are their dispatch index 0, 1, ...
NoneItem == -1

Categories == {"< 10ms", "< 50ms", "< 100ms", "< 200ms", "< 500ms", "< 1s", ">= 1s"}

\* ------------------------------------------------------ pure functions

\* categorize_response_time with thresholds that belong to the lower bucket
categorize_response_time_Inclusive(ms) ==
    IF ms <= 10 THEN "< 10ms"
    ELSE IF ms <= 50 THEN "< 50ms"
    ELSE IF ms <= 100 THEN "< 100ms"
    ELSE IF ms <= 200 THEN "< 200ms"
    ELSE IF ms <= 500 THEN "< 500ms"
    ELSE IF ms <= 1000 THEN "< 1s"
    ELSE ">= 1s"

\* categorize_response_time, the duration given in milliseconds
categorize_response_time(ms) ==
    IF ms < 10 THEN "< 10ms"
    ELSE IF ms < 50 THEN "< 50ms"
    ELSE IF ms < 100 THEN "< 100ms"
    ELSE IF ms < 200 THEN "< 200ms"
    ELSE IF ms < 500 THEN "< 500ms"
    ELSE IF ms < 1000 THEN "< 1s"
    ELSE ">= 1s"

\* stats as reset_stats (and the module's top level) sets it
ZeroStats ==
    [total_sent |-> 0, total_succeeded |-> 0, total_failed |-> 0,
     total_no_reply |-> 0, response_times |-> [c \in Categories |-> 0]]

NoLocals == [pkt_id |-> -1, start_time |-> 0, status |-> "", duration |-> 0]

\* CountOutcome with the Timeout handler counting nothing
CountOutcome_TimeoutLost(s, outcome) ==
    CASE outcome = "reply"   -> [s EXCEPT !.total_succeeded = @ + 1]
      [] outcome = "timeout" -> s
      [] OTHER               -> [s EXCEPT !.total_failed = @ + 1]

\* CountOutcome with the Timeout caught by the handler of Exception
CountOutcome_TimeoutAsFailed(s, outcome) ==
    CASE outcome = "reply"   -> [s EXCEPT !.total_succeeded = @ + 1]
      [] OTHER               -> [s EXCEPT !.total_failed = @ + 1]

\* the try/except of send_auth_request: one counter per outcome
CountOutcome(s, outcome) ==
    CASE outcome = "reply"   -> [s EXCEPT !.total_succeeded = @ + 1]
      [] outcome = "timeout" -> [s EXCEPT !.total_no_reply = @ + 1]
      [] OTHER               -> [s EXCEPT !.total_failed = @ + 1]

StatusOf(outcome) ==
    CASE outcome = "reply"   -> "succeeded"
      [] outcome = "timeout" -> "no_reply"
      [] OTHER               -> "failed"

Outcomes == {"reply", "timeout", "error"}

\* total_tasks of run_test
TotalTasks == rps * duration

\* ---------------------------------------------------------------- Init

\* perf.py: the pool has 1..MaxParallel workers
PerfWorkers == 1..MaxParallel

PerfCategories ==
    {"< 10 usec", "< 100 usec", "< msec", "< 10 msec", "< 0.1s", "< s", "< 10s", "< 100s"}

\* perf.py stats as the module's top level sets it
PerfZeroStats ==
    [total_sent |-> 0, total_retransmits |-> 0, total_succeeded |-> 0,
     total_failed |-> 0, total_no_reply |-> 0,
     response_times |-> [c \in PerfCategories |-> 0]]

\* what one call of send_auth_request has added to the five counters so far
PerfZeroDelta ==
    [total_sent |-> 0, total_retransmits |-> 0, total_succeeded |-> 0,
     total_failed |-> 0, total_no_reply |-> 0]

\* a perf.py worker not submitted: worker's start_id, count and loop index k,
\* send_auth_request's pkt_id, retries and duration, and the history of the
\* call in progress (attempts made, replies got, counters added)
PerfIdleWorker ==
    [pc |-> "none", start_id |-> 0, count |-> 0, k |-> 0, pkt_id |-> 0,
     retries |-> 0, duration |-> 0, attempts |-> 0, replies |-> 0,
     delta |-> PerfZeroDelta]

\* perf.py's variables while perf.py does not run
IdlePerf ==
    /\ perf_count = 0
    /\ perf_parallel = 1
    /\ perf_retries = 0
    /\ perf_pc = "none"
    /\ perf_i = 0
    /\ perf_id = 1
    /\ pw = [w \in PerfWorkers |-> PerfIdleWorker]
    /\ perf_stats = PerfZeroStats
    /\ perf_results = <<>>
    /\ perf_calls = {}

\* no duration is being categorized
IdleCat ==
    /\ cat_in = 0
    /\ cat_out = ""

\* the ramp's variables while no ramp runs
IdleRamp ==
    /\ start_rps = 0
    /\ step_rps = 1
    /\ max_rps = 0
    /\ slo_ms = 0
    /\ ramp_k = 0
    /\ step_recs = <<>>
    /\ executed = <<>>
    /\ evaluated = <<>>
    /\ report = <<>>

\* The module globals before main runs.  A pool has at least one worker
\* (queue.Queue(maxsize=0) would be an unbounded queue).
Init ==
    /\ variant \in {"bench", "experiment"}
    /\ duration \in 0..MaxDuration
    /\ workers \in 1..MaxWorkers
    /\ rps = 0
    /\ now = 0
    /\ pc = "main"
    /\ i = 0
    /\ nsent = 0
    /\ start_time = 0
    /\ task_queue = <<>>
    /\ wpc = [w \in Workers |-> "none"]
    /\ wtask = [w \in Workers |-> NoneItem]
    /\ wloc = [w \in Workers |-> NoLocals]
    /\ packet_id_counter = 0
    /\ stats = ZeroStats
    /\ results = <<>>
    /\ exp_times = <<>>
    /\ enqueued = <<>>
    /\ dequeued = <<>>
    /\ put_time = <<>>
    /\ assigned = <<>>
    /\ truncated = FALSE
    /\ pct_in = <<>>
    /\ pct_out = <<>>
    /\ IdleRamp
    /\ IdlePerf
    /\ IdleCat


\* ------------------------------------------------- main and run_test

\* reset_stats without results.clear()
reset_stats_KeepResults ==
    /\ results' = results
    /\ stats' = ZeroStats
    /\ packet_id_counter' = 0
    /\ exp_times' = <<>>

\* reset_stats of bench.py: results, stats and packet_id_counter
reset_stats ==
    /\ results' = <<>>
    /\ stats' = ZeroStats
    /\ packet_id_counter' = 0
    /\ exp_times' = <<>>

\* One iteration of main's loop up to the call of run_test: the ramp loop of
\* bench.py (reset_stats, start_time) and the hourly loop of experiment.py.
\* The step's rate is any rate of the bounded range.
MainStep ==
    /\ pc \in {"main", "returned"}
    /\ \E r \in 0..MaxRps :
          /\ r * duration <= MaxTasks
          /\ rps' = r
    /\ reset_stats
    /\ now' = 0
    /\ pc' = "call"
    /\ i' = 0
    /\ nsent' = 0
    /\ start_time' = 0
    /\ task_queue' = <<>>
    /\ wpc' = [w \in Workers |-> "none"]
    /\ wtask' = [w \in Workers |-> NoneItem]
    /\ wloc' = [w \in Workers |-> NoLocals]
    /\ enqueued' = <<>>
    /\ dequeued' = <<>>
    /\ put_time' = <<>>
    /\ assigned' = <<>>
    /\ truncated' = FALSE
    /\ UNCHANGED <<variant, duration, workers, othervars>>

\* main's loop ends (the range or the hourly data is exhausted, or the ramp breaks)
MainExit ==
    /\ pc = "returned"
    /\ pc' = "exit"
    /\ UNCHANGED <<variant, duration, workers, rps, now, i, nsent, start_time,
                   task_queue, wpc, wtask, wloc, packet_id_counter, stats, results,
                   exp_times, enqueued, dequeued, put_time, assigned, truncated, othervars>>

\* QueueFull of an unbounded queue
QueueFull_Never(q) == FALSE

\* maxsize of the task queue
Capacity == workers * 2

QueueFull(q) == Len(q) >= Capacity

\* run_test: the queue is created and the worker threads are started
StartThreads ==
    /\ pc = "call"
    /\ task_queue' = <<>>
    /\ wpc' = [w \in Workers |-> IF w <= workers THEN "get" ELSE "none"]
    /\ pc' = "start"
    /\ UNCHANGED <<variant, duration, workers, rps, now, i, nsent, start_time,
                   wtask, wloc, packet_id_counter, stats, results, exp_times,
                   enqueued, dequeued, put_time, assigned, truncated, othervars>>

\* interval = 1.0 / rps raises ZeroDivisionError in bench.py when rps = 0;
\* experiment.py uses 1.0 then
IntervalRaises == variant = "bench" /\ rps = 0

\* run_test: start_time, test_end_time, interval, total_tasks
ReadStart ==
    /\ pc = "start"
    /\ start_time' = now
    /\ i' = 0
    /\ pc' = IF IntervalRaises THEN "raised" ELSE "check"
    /\ UNCHANGED <<variant, duration, workers, rps, now, nsent, task_queue,
                   wpc, wtask, wloc, packet_id_counter, stats, results, exp_times,
                   enqueued, dequeued, put_time, assigned, truncated, othervars>>

test_end_time == start_time + duration

\* PastEnd with the test left out
PastEnd_Never(t) == FALSE

\* the test of the clock at the top of a dispatch iteration
PastEnd(t) == t > test_end_time

\* run_test: top of the for loop: range(total_tasks) exhausted, or the
\* clock is past test_end_time (break), or go on to put
LoopCheck ==
    /\ pc = "check"
    /\ pc' = IF i >= TotalTasks \/ PastEnd(now) THEN "sentinels" ELSE "put"
    /\ truncated' = (i < TotalTasks /\ PastEnd(now))
    /\ UNCHANGED <<variant, duration, workers, rps, now, i, nsent, start_time,
                   task_queue, wpc, wtask, wloc, packet_id_counter, stats, results,
                   exp_times, enqueued, dequeued, put_time, assigned, othervars>>

\* task_queue.put(task): blocks while the queue is full
Put ==
    /\ pc = "put"
    /\ ~QueueFull(task_queue)
    /\ task_queue' = Append(task_queue, i)
    /\ enqueued' = Append(enqueued, i)
    /\ put_time' = Append(put_time, now)
    /\ pc' = "pace"
    /\ UNCHANGED <<variant, duration, workers, rps, now, i, nsent, start_time,
                   wpc, wtask, wloc, packet_id_counter, stats, results, exp_times,
                   dequeued, assigned, truncated, othervars>>

\* SleepNeeded with the deadline one interval after the last put
SleepNeeded_FromLastPut(t) == t * rps < put_time[Len(put_time)] * rps + 1

\* SleepNeeded with the pacing left out
SleepNeeded_Never(t) == FALSE

\* sleep_duration > 0, with next_dispatch_time = start_time + (i + 1) * interval
\* and interval = 1.0 / rps, both sides multiplied by rps
SleepNeeded(t) == t * rps < start_time * rps + (i + 1)

\* run_test: the pacing after a put
Pace ==
    /\ pc = "pace"
    /\ IF SleepNeeded(now)
          THEN /\ pc' = "sleep"
               /\ UNCHANGED i
          ELSE /\ pc' = "check"
               /\ i' = i + 1
    /\ UNCHANGED <<variant, duration, workers, rps, now, nsent, start_time,
                   task_queue, wpc, wtask, wloc, packet_id_counter, stats, results,
                   exp_times, enqueued, dequeued, put_time, assigned, truncated, othervars>>

\* time.sleep(sleep_duration) returns: not before next_dispatch_time
Wake ==
    /\ pc = "sleep"
    /\ ~SleepNeeded(now)
    /\ pc' = "check"
    /\ i' = i + 1
    /\ UNCHANGED <<variant, duration, workers, rps, now, nsent, start_time,
                   task_queue, wpc, wtask, wloc, packet_id_counter, stats, results,
                   exp_times, enqueued, dequeued, put_time, assigned, truncated, othervars>>

\* run_test: task_queue.put(None), once per worker
PutSentinel ==
    /\ pc = "sentinels"
    /\ IF nsent >= workers
          THEN /\ pc' = "join"
               /\ UNCHANGED <<task_queue, enqueued, nsent>>
          ELSE /\ ~QueueFull(task_queue)
               /\ task_queue' = Append(task_queue, NoneItem)
               /\ enqueued' = Append(enqueued, NoneItem)
               /\ nsent' = nsent + 1
               /\ pc' = "sentinels"
    /\ UNCHANGED <<variant, duration, workers, rps, now, i, start_time,
                   wpc, wtask, wloc, packet_id_counter, stats, results, exp_times,
                   dequeued, put_time, assigned, truncated, othervars>>

\* Joined with no thread joined
Joined_None == TRUE

\* Joined with only the first thread joined
Joined_FirstOnly == wpc[1] = "done"

\* the threads run_test joins
Joined == \A w \in 1..workers : wpc[w] = "done"

\* run_test: thread.join() for every thread, then return
Join ==
    /\ pc = "join"
    /\ Joined
    /\ pc' = "returned"
    /\ UNCHANGED <<variant, duration, workers, rps, now, i, nsent, start_time,
                   task_queue, wpc, wtask, wloc, packet_id_counter, stats, results,
                   exp_times, enqueued, dequeued, put_time, assigned, truncated, othervars>>

\* The clock advances while a step runs, up to Overrun past test_end_time.
Tick ==
    /\ pc \in {"check", "put", "pace", "sleep", "sentinels", "join"}
    /\ now < test_end_time + Overrun
    /\ now' = now + 1
    /\ UNCHANGED <<variant, duration, workers, rps, pc, i, nsent, start_time,
                   task_queue, wpc, wtask, wloc, packet_id_counter, stats, results,
                   exp_times, enqueued, dequeued, put_time, assigned, truncated, othervars>>

\* ------------------------------------------------------- worker threads

\* Get of a queue.LifoQueue: the newest item first
Get_Lifo(w) ==
    /\ wpc[w] = "get"
    /\ task_queue # <<>>
    /\ task_queue' = SubSeq(task_queue, 1, Len(task_queue) - 1)
    /\ dequeued' = Append(dequeued, task_queue[Len(task_queue)])
    /\ IF task_queue[Len(task_queue)] = NoneItem
          THEN /\ wpc' = [wpc EXCEPT ![w] = "done"]
               /\ UNCHANGED wtask
          ELSE /\ wpc' = [wpc EXCEPT ![w] = "send"]
               /\ wtask' = [wtask EXCEPT ![w] = task_queue[Len(task_queue)]]
    /\ UNCHANGED <<variant, duration, workers, rps, now, pc, i, nsent, start_time,
                   wloc, packet_id_counter, stats, results, exp_times,
                   enqueued, put_time, assigned, truncated, othervars>>

\* Get of a worker that drops a None item and goes on with its loop
Get_IgnoresSentinel(w) ==
    /\ wpc[w] = "get"
    /\ task_queue # <<>>
    /\ task_queue' = Tail(task_queue)
    /\ dequeued' = Append(dequeued, Head(task_queue))
    /\ IF Head(task_queue) = NoneItem
          THEN /\ UNCHANGED wpc
               /\ UNCHANGED wtask
          ELSE /\ wpc' = [wpc EXCEPT ![w] = "send"]
               /\ wtask' = [wtask EXCEPT ![w] = Head(task_queue)]
    /\ UNCHANGED <<variant, duration, workers, rps, now, pc, i, nsent, start_time,
                   wloc, packet_id_counter, stats, results, exp_times,
                   enqueued, put_time, assigned, truncated, othervars>>

\* task = task_queue.get(): blocks while the queue is empty; None ends the loop
Get(w) ==
    /\ wpc[w] = "get"
    /\ task_queue # <<>>
    /\ task_queue' = Tail(task_queue)
    /\ dequeued' = Append(dequeued, Head(task_queue))
    /\ IF Head(task_queue) = NoneItem
          THEN /\ wpc' = [wpc EXCEPT ![w] = "done"]
               /\ UNCHANGED wtask
          ELSE /\ wpc' = [wpc EXCEPT ![w] = "send"]
               /\ wtask' = [wtask EXCEPT ![w] = Head(task_queue)]
    /\ UNCHANGED <<variant, duration, workers, rps, now, pc, i, nsent, start_time,
                   wloc, packet_id_counter, stats, results, exp_times,
                   enqueued, put_time, assigned, truncated, othervars>>

\* NextPktId with the increment lost
NextPktId_Lost(c) == c

\* packet_id_counter += 1
NextPktId(c) == c + 1

\* bench.py send_auth_request: the packet_id_lock section, then
\* start_time = time.monotonic()
TakePktId(w) ==
    /\ variant = "bench"
    /\ wpc[w] = "send"
    /\ wloc' = [wloc EXCEPT ![w] = [NoLocals EXCEPT !.pkt_id = packet_id_counter,
                                                    !.start_time = now]]
    /\ packet_id_counter' = NextPktId(packet_id_counter)
    /\ assigned' = Append(assigned, [task |-> wtask[w], pkt_id |-> packet_id_counter])
    /\ wpc' = [wpc EXCEPT ![w] = "exchange"]
    /\ UNCHANGED <<variant, duration, workers, rps, now, pc, i, nsent, start_time,
                   task_queue, wtask, stats, results, exp_times,
                   enqueued, dequeued, put_time, truncated, othervars>>

\* bench.py send_auth_request: the exchange ends with a reply, a Timeout or
\* another exception; the matching counter is incremented under stats_lock
Exchange(w) ==
    /\ variant = "bench"
    /\ wpc[w] = "exchange"
    /\ \E outcome \in Outcomes :
          /\ stats' = CountOutcome(stats, outcome)
          /\ wloc' = [wloc EXCEPT ![w].status = StatusOf(outcome)]
    /\ wpc' = [wpc EXCEPT ![w] = "record"]
    /\ UNCHANGED <<variant, duration, workers, rps, now, pc, i, nsent, start_time,
                   task_queue, wtask, packet_id_counter, results, exp_times,
                   enqueued, dequeued, put_time, assigned, truncated, othervars>>

\* RecordSent with the latency bucket left as it was
RecordSent_NoBucket(s, d) == [s EXCEPT !.total_sent = @ + 1]

\* total_sent and the latency bucket, one stats_lock section
RecordSent(s, d) ==
    [s EXCEPT !.total_sent = @ + 1,
              !.response_times[categorize_response_time(d * 1000)] = @ + 1]

\* bench.py send_auth_request: end_time, duration, then total_sent and the bucket
Record(w) ==
    /\ variant = "bench"
    /\ wpc[w] = "record"
    /\ wloc' = [wloc EXCEPT ![w].duration = now - wloc[w].start_time]
    /\ stats' = RecordSent(stats, now - wloc[w].start_time)
    /\ wpc' = [wpc EXCEPT ![w] = "append"]
    /\ UNCHANGED <<variant, duration, workers, rps, now, pc, i, nsent, start_time,
                   task_queue, wtask, packet_id_counter, results, exp_times,
                   enqueued, dequeued, put_time, assigned, truncated, othervars>>

\* the record send_auth_request appends (its start_time field, which the
\* program only exports, is left out)
ResultOf(l) ==
    [pkt_id |-> l.pkt_id, status |-> l.status, duration |-> l.duration]

\* AppendResult recording only the exchanges that got a reply
AppendResult_OnlyReplies(w) ==
    /\ variant = "bench"
    /\ wpc[w] = "append"
    /\ results' = IF wloc[w].status = "succeeded"
                     THEN Append(results, ResultOf(wloc[w]))
                     ELSE results
    /\ wpc' = [wpc EXCEPT ![w] = "get"]
    /\ wtask' = [wtask EXCEPT ![w] = NoneItem]
    /\ wloc' = [wloc EXCEPT ![w] = NoLocals]
    /\ UNCHANGED <<variant, duration, workers, rps, now, pc, i, nsent, start_time,
                   task_queue, packet_id_counter, stats,
                   exp_times, enqueued, dequeued, put_time, assigned, truncated, othervars>>

\* bench.py send_auth_request: results.append under results_lock; the worker
\* then calls task_queue.task_done() and loops
AppendResult(w) ==
    /\ variant = "bench"
    /\ wpc[w] = "append"
    /\ results' = Append(results, ResultOf(wloc[w]))
    /\ wpc' = [wpc EXCEPT ![w] = "get"]
    /\ wtask' = [wtask EXCEPT ![w] = NoneItem]
    /\ wloc' = [wloc EXCEPT ![w] = NoLocals]
    /\ UNCHANGED <<variant, duration, workers, rps, now, pc, i, nsent, start_time,
                   task_queue, packet_id_counter, stats,
                   exp_times, enqueued, dequeued, put_time, assigned, truncated, othervars>>

\* experiment.py send_auth_request: start_time = time.monotonic()
ExpStart(w) ==
    /\ variant = "experiment"
    /\ wpc[w] = "send"
    /\ wloc' = [wloc EXCEPT ![w] = [NoLocals EXCEPT !.start_time = now]]
    /\ wpc' = [wpc EXCEPT ![w] = "exchange"]
    /\ UNCHANGED <<variant, duration, workers, rps, now, pc, i, nsent, start_time,
                   task_queue, wtask, packet_id_counter, stats, results,
                   exp_times, enqueued, dequeued, put_time, assigned, truncated, othervars>>

\* experiment.py send_auth_request: the exchange and its counter
\* (total_timeout is total_no_reply here)
ExpExchange(w) ==
    /\ variant = "experiment"
    /\ wpc[w] = "exchange"
    /\ \E outcome \in Outcomes : stats' = CountOutcome(stats, outcome)
    /\ wpc' = [wpc EXCEPT ![w] = "record"]
    /\ UNCHANGED <<variant, duration, workers, rps, now, pc, i, nsent, start_time,
                   task_queue, wtask, wloc, packet_id_counter, results,
                   exp_times, enqueued, dequeued, put_time, assigned, truncated, othervars>>

\* experiment.py send_auth_request: duration, total_sent and the duration
\* appended to stats['response_times']; the worker then loops
ExpRecord(w) ==
    /\ variant = "experiment"
    /\ wpc[w] = "record"
    /\ stats' = [stats EXCEPT !.total_sent = @ + 1]
    /\ exp_times' = Append(exp_times, now - wloc[w].start_time)
    /\ wpc' = [wpc EXCEPT ![w] = "get"]
    /\ wtask' = [wtask EXCEPT ![w] = NoneItem]
    /\ wloc' = [wloc EXCEPT ![w] = NoLocals]
    /\ UNCHANGED <<variant, duration, workers, rps, now, pc, i, nsent, start_time,
                   task_queue, packet_id_counter, results,
                   enqueued, dequeued, put_time, assigned, truncated, othervars>>

\* ------------------------------------------------------- specification

Next ==
    \/ MainStep
    \/ MainExit
    \/ StartThreads
    \/ ReadStart
    \/ LoopCheck
    \/ Put
    \/ Pace
    \/ Wake
    \/ PutSentinel
    \/ Join
    \/ Tick
    \/ \E w \in Workers : Get(w)
    \/ \E w \in Workers : TakePktId(w)
    \/ \E w \in Workers : Exchange(w)
    \/ \E w \in Workers : Record(w)
    \/ \E w \in Workers : AppendResult(w)
    \/ \E w \in Workers : ExpStart(w)
    \/ \E w \in Workers : ExpExchange(w)
    \/ \E w \in Workers : ExpRecord(w)

Spec == Init /\ [][Next]_vars

\* the steps of the thread that runs run_test
Dispatcher ==
    \/ StartThreads
    \/ ReadStart
    \/ LoopCheck
    \/ Put
    \/ Pace
    \/ Wake
    \/ PutSentinel
    \/ Join

\* the steps of worker thread w: consumer_worker and the send_auth_request
\* it calls, whose exchange always ends (reply, timeout or error)
Worker(w) ==
    \/ Get(w)
    \/ TakePktId(w)
    \/ Exchange(w)
    \/ Record(w)
    \/ AppendResult(w)
    \/ ExpStart(w)
    \/ ExpExchange(w)
    \/ ExpRecord(w)

\* Every thread that can take a step is scheduled in the end, and the clock
\* goes on; main itself may stop between two steps.
FairSpec ==
    /\ Spec
    /\ WF_vars(Dispatcher)
    /\ \A w \in Workers : WF_vars(Worker(w))
    /\ WF_vars(Tick)

\* ---------------------------------------------------------- percentiles

RECURSIVE Insert(_, _)
Insert(x, seq) ==
    IF seq = <<>> THEN <<x>>
    ELSE IF x <= Head(seq) THEN <<x>> \o seq
    ELSE <<Head(seq)>> \o Insert(x, Tail(seq))

\* sorted(times): ascending
RECURSIVE Sorted(_)
Sorted(seq) == IF seq = <<>> THEN <<>> ELSE Insert(Head(seq), Sorted(Tail(seq)))

\* int(len(durations) * 0.95) - 1 and int(len(durations) * 0.99) - 1, for
\* p = 95 and p = 99: int() truncates, and the float product truncates to
\* (n * p) \div 100 for every n up to 200000
PctIndex(n, p) == ((n * p) \div 100) - 1

\* sequences count from 1
At(seq, idx) == seq[idx + 1]

\* experiment.py calculate_percentiles: (p95, p99) in milliseconds
calculate_percentiles(times) ==
    IF times = <<>> THEN [p95 |-> 0, p99 |-> 0]
    ELSE LET sorted_times == Sorted(times)
             p95_idx == PctIndex(Len(sorted_times), 95)
             p99_idx == PctIndex(Len(sorted_times), 99)
         IN  [p95 |-> 1000 * (IF p95_idx >= 0 THEN At(sorted_times, p95_idx)
                                               ELSE At(sorted_times, 0)),
              p99 |-> 1000 * (IF p99_idx >= 0 THEN At(sorted_times, p99_idx)
                                               ELSE At(sorted_times, 0))]

\* bench.py print_statistics: p95_latency and p99_latency as printed, in
\* milliseconds; nothing is printed when results is empty
PrintedPercentiles(durs) ==
    IF durs = <<>> THEN [printed |-> FALSE, p95 |-> 0, p99 |-> 0]
    ELSE LET durations == Sorted(durs)
             p95_index == PctIndex(Len(durations), 95)
             p99_index == PctIndex(Len(durations), 99)
         IN  [printed |-> TRUE,
              p95 |-> 1000 * (IF p95_index >= 0 THEN At(durations, p95_index) ELSE 0),
              p99 |-> 1000 * (IF p99_index >= 0 THEN At(durations, p99_index) ELSE 0)]

\* the durations of bench.py's results, in the order they were appended
DurationsOf(recs) == [k \in DOMAIN recs |-> recs[k].duration]

\* bench.py main, ramp mode: the P95 compared with the SLO, in milliseconds;
\* none when results is empty or the index is negative
RampP95(durs) ==
    IF durs = <<>> THEN [compared |-> FALSE, p95 |-> 0]
    ELSE LET durations == Sorted(durs)
             p95_index == PctIndex(Len(durations), 95)
         IN  IF p95_index >= 0
                THEN [compared |-> TRUE, p95 |-> 1000 * At(durations, p95_index)]
                ELSE [compared |-> FALSE, p95 |-> 0]

RECURSIVE SeqsUpTo(_, _)
SeqsUpTo(S, n) ==
    IF n = 0 THEN {<<>>}
    ELSE LET shorter == SeqsUpTo(S, n - 1)
         IN  shorter \cup {Append(q, x) : q \in shorter, x \in S}

\* the state before main runs, for the specifications of the pure functions
Idle ==
    /\ variant = "bench"
    /\ duration = 0
    /\ workers = 1
    /\ rps = 0
    /\ now = 0
    /\ pc = "main"
    /\ i = 0
    /\ nsent = 0
    /\ start_time = 0
    /\ task_queue = <<>>
    /\ wpc = [w \in Workers |-> "none"]
    /\ wtask = [w \in Workers |-> NoneItem]
    /\ wloc = [w \in Workers |-> NoLocals]
    /\ packet_id_counter = 0
    /\ stats = ZeroStats
    /\ results = <<>>
    /\ exp_times = <<>>
    /\ enqueued = <<>>
    /\ dequeued = <<>>
    /\ put_time = <<>>
    /\ assigned = <<>>
    /\ truncated = FALSE

InitPct ==
    /\ Idle
    /\ pct_in \in SeqsUpTo(1..MaxDur, MaxSamples)
    /\ pct_out = <<>>
    /\ IdleRamp
    /\ IdlePerf
    /\ IdleCat

\* calculate_percentiles(stats['response_times']) of experiment.py main
ApplyCalculate ==
    /\ pct_out = <<>>
    /\ pct_out' = [site |-> "calculate_percentiles",
                   reported |-> TRUE,
                   p95 |-> calculate_percentiles(pct_in).p95,
                   p99 |-> calculate_percentiles(pct_in).p99]
    /\ UNCHANGED <<runvars, pct_in, rampvars, perfvars, catvars>>

\* the percentile lines of bench.py print_statistics
ApplyPrint ==
    /\ pct_out = <<>>
    /\ pct_out' = [site |-> "print_statistics",
                   reported |-> PrintedPercentiles(pct_in).printed,
                   p95 |-> PrintedPercentiles(pct_in).p95,
                   p99 |-> PrintedPercentiles(pct_in).p99]
    /\ UNCHANGED <<runvars, pct_in, rampvars, perfvars, catvars>>

\* the P95 of bench.py main's SLO check (it computes no P99)
ApplyRamp ==
    /\ pct_out = <<>>
    /\ pct_out' = [site |-> "ramp",
                   reported |-> RampP95(pct_in).compared,
                   p95 |-> RampP95(pct_in).p95,
                   p99 |-> 0]
    /\ UNCHANGED <<runvars, pct_in, rampvars, perfvars, catvars>>

NextPct == ApplyCalculate \/ ApplyPrint \/ ApplyRamp

SpecPct == InitPct /\ [][NextPct]_vars

\* ------------------------------------------------- ramp mode of bench.py

MaxStepRps == 2   \* ramp increments 1..MaxStepRps
MaxSlo     == 2   \* SLOs of 1..MaxSlo seconds (slo_ms = 1000, 2000, ...)
MaxLatency == 2   \* a ramp step's requests take 1..MaxLatency seconds

\* the harness of run_test between two steps: no thread, nothing queued
Quiet ==
    /\ now = 0
    /\ i = 0
    /\ nsent = 0
    /\ start_time = 0
    /\ task_queue = <<>>
    /\ wpc = [w \in Workers |-> "none"]
    /\ wtask = [w \in Workers |-> NoneItem]
    /\ wloc = [w \in Workers |-> NoLocals]
    /\ exp_times = <<>>
    /\ enqueued = <<>>
    /\ dequeued = <<>>
    /\ put_time = <<>>
    /\ assigned = <<>>
    /\ truncated = FALSE

quietvars == <<variant, duration, workers, now, i, nsent, start_time, task_queue,
               wpc, wtask, wloc, exp_times, enqueued, dequeued, put_time,
               assigned, truncated, pctvars, perfvars, catvars>>

\* bench.py ramp: the arguments parsed, the globals as the module sets them
InitRamp ==
    /\ variant = "bench"
    /\ duration \in 0..MaxDuration
    /\ workers \in 1..MaxWorkers
    /\ start_rps \in 0..MaxRps
    /\ step_rps \in 1..MaxStepRps
    /\ max_rps \in 0..MaxRps
    /\ max_rps * duration <= MaxTasks
    /\ slo_ms \in {1000 * s : s \in 1..MaxSlo}
    /\ rps = 0
    /\ pc = "main"
    /\ Quiet
    /\ packet_id_counter = 0
    /\ stats = ZeroStats
    /\ results = <<>>
    /\ ramp_k = 0
    /\ step_recs = <<>>
    /\ executed = <<>>
    /\ evaluated = <<>>
    /\ report = <<>>
    /\ pct_in = <<>>
    /\ pct_out = <<>>
    /\ IdlePerf
    /\ IdleCat

\* the k-th value (from 0) of range(start_rps, max_rps + 1, step_rps)
RampRate(k) == start_rps + k * step_rps

\* InRamp of range(start_rps, max_rps, step_rps)
InRamp_Exclusive(r) == r < max_rps

\* r is below the stop of range(start_rps, max_rps + 1, step_rps)
InRamp(r) == r < max_rps + 1

\* the for statement yields the next rate; reset_stats()
RampStep ==
    /\ pc = "main"
    /\ InRamp(RampRate(ramp_k))
    /\ rps' = RampRate(ramp_k)
    /\ ramp_k' = ramp_k + 1
    /\ reset_stats
    /\ step_recs' = <<>>
    /\ pc' = "call"
    /\ UNCHANGED <<variant, duration, workers, now, i, nsent, start_time,
                   task_queue, wpc, wtask, wloc, enqueued, dequeued, put_time,
                   assigned, truncated, pctvars, perfvars, catvars,
                   start_rps, step_rps, max_rps,
                   slo_ms, executed, evaluated, report>>

\* the range is exhausted: the else clause of the for statement
RampCompleted ==
    /\ pc = "main"
    /\ ~InRamp(RampRate(ramp_k))
    /\ report' = Append(report, [kind |-> "completed", rps |-> -1])
    /\ pc' = "completed"
    /\ UNCHANGED <<quietvars, rps, packet_id_counter, stats, results, start_rps,
                   step_rps, max_rps, slo_ms, ramp_k, step_recs, executed, evaluated>>

\* the counters and buckets after the exchanges of a step, one by one
RECURSIVE StatsAfter(_, _, _)
StatsAfter(s, outs, durs) ==
    IF outs = <<>> THEN s
    ELSE StatsAfter(RecordSent(CountOutcome(s, Head(outs)), Head(durs)),
                    Tail(outs), Tail(durs))

\* The call of run_test, from its first line to its return, as main sees it:
\* ZeroDivisionError for rps = 0; otherwise n <= rps * duration tasks were put
\* and taken (fewer when the dispatch loop broke), each got the next pkt_id,
\* counted one outcome and total_sent, and appended its record to results.
RunTestStep ==
    /\ pc = "call"
    /\ executed' = Append(executed, rps)
    /\ IF IntervalRaises
          THEN /\ pc' = "raised"
               /\ UNCHANGED <<results, stats, packet_id_counter, step_recs>>
          ELSE /\ \E n \in 0..TotalTasks :
                    \E outs \in [1..n -> Outcomes], durs \in [1..n -> 1..MaxLatency] :
                       LET recs == [k \in 1..n |->
                                      [pkt_id |-> packet_id_counter + k - 1,
                                       status |-> StatusOf(outs[k]),
                                       duration |-> durs[k]]]
                       IN  /\ results' = results \o recs
                           /\ step_recs' = recs
                           /\ stats' = StatsAfter(stats, outs, durs)
                           /\ packet_id_counter' = packet_id_counter + n
               /\ pc' = "returned"
    /\ UNCHANGED <<quietvars, rps, start_rps, step_rps, max_rps, slo_ms, ramp_k,
                   evaluated, report>>

\* PrintResults with nothing printed
PrintResults_Silent ==
    /\ pc = "returned"
    /\ pc' = "printed"
    /\ UNCHANGED <<quietvars, rps, packet_id_counter, stats, results, start_rps,
                   step_rps, max_rps, slo_ms, ramp_k, step_recs, executed, evaluated,
                   report>>

\* the results header and print_statistics(total_time)
PrintResults ==
    /\ pc = "returned"
    /\ report' = Append(report, [kind |-> "results", rps |-> rps])
    /\ pc' = "printed"
    /\ UNCHANGED <<quietvars, rps, packet_id_counter, stats, results, start_rps,
                   step_rps, max_rps, slo_ms, ramp_k, step_recs, executed, evaluated>>

\* SloViolated with the SLO itself counted as a violation
SloViolated_AtLeast(p95, slo) == p95 >= slo

\* p95_latency > slo_s, both sides in milliseconds
SloViolated(p95, slo) == p95 > slo

\* the SLO check: break with the violation printed, or the next iteration
SloCheck ==
    /\ pc = "printed"
    /\ LET p == RampP95(DurationsOf(results))
       IN  /\ evaluated' = Append(evaluated, [rps |-> rps, compared |-> p.compared,
                                              p95 |-> p.p95])
           /\ IF p.compared /\ SloViolated(p.p95, slo_ms)
                 THEN /\ report' = Append(report, [kind |-> "slo_violated", rps |-> rps])
                      /\ pc' = "stopped"
                 ELSE /\ UNCHANGED report
                      /\ pc' = "main"
    /\ UNCHANGED <<quietvars, rps, packet_id_counter, stats, results, start_rps,
                   step_rps, max_rps, slo_ms, ramp_k, step_recs, executed>>

NextRamp ==
    \/ RampStep
    \/ RampCompleted
    \/ RunTestStep
    \/ PrintResults
    \/ SloCheck

SpecRamp == InitRamp /\ [][NextRamp]_vars

\* ------------------------------------------------------------- perf.py

quietperf == <<runvars, pctvars, rampvars, catvars, perf_count, perf_parallel,
               perf_retries>>

\* perf.py categorize_response_time, the duration given in microseconds
perf_categorize_response_time(us) ==
    IF us < 10 THEN "< 10 usec"
    ELSE IF us < 100 THEN "< 100 usec"
    ELSE IF us < 1000 THEN "< msec"
    ELSE IF us < 10000 THEN "< 10 msec"
    ELSE IF us < 100000 THEN "< 0.1s"
    ELSE IF us < 1000000 THEN "< s"
    ELSE IF us < 10000000 THEN "< 10s"
    ELSE "< 100s"

\* end - start of a call, in microseconds: one duration of the first, of a
\* middle and of the last bucket
PerfDurs == {5, 50000, 20000000}

\* the exceptions of an attempt: one whose text contains "timeout", one
\* whose text does not
PerfOutcomes == {"reply", "timeout", "error"}

\* the counters of rec increased by a list of <<counter, amount>>
RECURSIVE AddAll(_, _)
AddAll(rec, incs) ==
    IF incs = <<>> THEN rec
    ELSE AddAll([rec EXCEPT ![Head(incs)[1]] = @ + Head(incs)[2]], Tail(incs))

\* MayRetry with one attempt more
MayRetry_OneMore(r) == r <= perf_retries + 1

\* retries <= max_retries: the test of the while loop and of the handler
MayRetry(r) == r <= perf_retries

\* the stats_lock section after a reply, retries attempts having failed
OnSuccess(r) ==
    (IF r = 0 THEN << <<"total_sent", 1>> >> ELSE << <<"total_retransmits", r>> >>)
        \o << <<"total_succeeded", 1>> >>

\* the stats_lock section of the handler when it retries, r the new retries
OnRetry(r) ==
    (IF r = 1 THEN << <<"total_sent", 1>> >> ELSE <<>>)
        \o << <<"total_retransmits", 1>> >>

\* OnGiveUp without the total_sent of a call that failed at its only attempt
OnGiveUp_NoSent(r, outcome) ==
    << <<(IF outcome = "timeout" THEN "total_no_reply" ELSE "total_failed"), 1>> >>

\* the stats_lock section of the handler when it gives up, r the new retries
OnGiveUp(r, outcome) ==
    (IF r = 1 THEN << <<"total_sent", 1>> >> ELSE <<>>)
        \o << <<(IF outcome = "timeout" THEN "total_no_reply" ELSE "total_failed"), 1>> >>

\* perf.py: the arguments parsed, the globals as the module sets them
InitPerf ==
    /\ Idle
    /\ IdleRamp
    /\ IdleCat
    /\ pct_in = <<>>
    /\ pct_out = <<>>
    /\ perf_count \in 0..MaxPackets
    /\ perf_parallel \in 1..MaxParallel
    /\ perf_retries \in 0..MaxRetries
    /\ perf_pc = "submit"
    /\ perf_i = 0
    /\ perf_id = 1
    /\ pw = [w \in PerfWorkers |-> PerfIdleWorker]
    /\ perf_stats = PerfZeroStats
    /\ perf_results = <<>>
    /\ perf_calls = {}

\* PerfCountOf with the remaining packets given to no worker
PerfCountOf_NoRemainder(idx) == perf_count \div perf_parallel

\* packets_per_worker + (1 if i < remaining_packets else 0)
PerfCountOf(idx) ==
    (perf_count \div perf_parallel) + (IF idx < perf_count % perf_parallel THEN 1 ELSE 0)

\* main: one iteration of the submit loop, or the loop ends
PerfSubmit ==
    /\ perf_pc = "submit"
    /\ IF perf_i < perf_parallel
          THEN /\ perf_i' = perf_i + 1
               /\ perf_pc' = "submit"
               /\ IF PerfCountOf(perf_i) > 0
                     THEN /\ pw' = [pw EXCEPT ![perf_i + 1] =
                                      [PerfIdleWorker EXCEPT !.pc = "loop",
                                                             !.start_id = perf_id,
                                                             !.count = PerfCountOf(perf_i)]]
                          /\ perf_id' = perf_id + PerfCountOf(perf_i)
                     ELSE UNCHANGED <<pw, perf_id>>
          ELSE /\ perf_pc' = "wait"
               /\ UNCHANGED <<perf_i, pw, perf_id>>
    /\ UNCHANGED <<quietperf, perf_stats, perf_results, perf_calls>>

\* main: future.result() for every future, the executor shut down
PerfWait ==
    /\ perf_pc = "wait"
    /\ \A w \in PerfWorkers : pw[w].pc \in {"none", "done"}
    /\ perf_pc' = "done"
    /\ UNCHANGED <<quietperf, perf_i, perf_id, pw, perf_stats, perf_results, perf_calls>>

\* worker: the for loop calls send_auth_request(pkt_id = start_id + i), which
\* reads start and sets retries = 0; or the loop ends
PerfCall(w) ==
    /\ pw[w].pc = "loop"
    /\ pw' = [pw EXCEPT ![w] =
                IF pw[w].k < pw[w].count
                   THEN [pw[w] EXCEPT !.pc = "while",
                                      !.pkt_id = pw[w].start_id + pw[w].k,
                                      !.retries = 0, !.duration = 0, !.attempts = 0,
                                      !.replies = 0, !.delta = PerfZeroDelta]
                   ELSE [pw[w] EXCEPT !.pc = "done"]]
    /\ UNCHANGED <<quietperf, perf_pc, perf_i, perf_id, perf_stats, perf_results,
                   perf_calls>>

\* send_auth_request: the test of the while loop; the function returns None
\* when it fails
PerfWhile(w) ==
    /\ pw[w].pc = "while"
    /\ IF MayRetry(pw[w].retries)
          THEN /\ pw' = [pw EXCEPT ![w].pc = "attempt"]
               /\ UNCHANGED perf_calls
          ELSE /\ pw' = [pw EXCEPT ![w].pc = "loop", ![w].k = @ + 1]
               /\ perf_calls' = perf_calls \cup
                     {[pkt_id |-> pw[w].pkt_id, value |-> "None",
                       attempts |-> pw[w].attempts, replies |-> pw[w].replies,
                       delta |-> pw[w].delta]}
    /\ UNCHANGED <<quietperf, perf_pc, perf_i, perf_id, perf_stats, perf_results>>

\* send_auth_request: one attempt, the body of the try and the handler: a
\* reply is counted under stats_lock; an exception is counted as a retry, or
\* as the failure of the call when no retry is left
PerfAttempt(w) ==
    /\ pw[w].pc = "attempt"
    /\ \E outcome \in PerfOutcomes, d \in PerfDurs :
          LET r == pw[w].retries + 1
              incs == IF outcome = "reply" THEN OnSuccess(pw[w].retries)
                      ELSE IF MayRetry(r) THEN OnRetry(r)
                      ELSE OnGiveUp(r, outcome)
              counted == AddAll(perf_stats, incs)
          IN  /\ perf_stats' =
                    IF outcome = "reply"
                       THEN [counted EXCEPT
                               !.response_times[perf_categorize_response_time(d)] = @ + 1]
                       ELSE counted
              /\ pw' = [pw EXCEPT
                          ![w].attempts = @ + 1,
                          ![w].replies = IF outcome = "reply" THEN @ + 1 ELSE @,
                          ![w].delta = AddAll(@, incs),
                          ![w].retries = IF outcome = "reply" THEN @ ELSE r,
                          ![w].duration = IF outcome # "reply" /\ MayRetry(r) THEN @ ELSE d,
                          ![w].pc = IF outcome = "reply" THEN "append_ok"
                                    ELSE IF MayRetry(r) THEN "sleep"
                                    ELSE "append_fail"]
    /\ UNCHANGED <<quietperf, perf_pc, perf_i, perf_id, perf_results, perf_calls>>

\* send_auth_request: time.sleep(0.1); continue
PerfSleep(w) ==
    /\ pw[w].pc = "sleep"
    /\ pw' = [pw EXCEPT ![w].pc = "while"]
    /\ UNCHANGED <<quietperf, perf_pc, perf_i, perf_id, perf_stats, perf_results,
                   perf_calls>>

\* send_auth_request: results.append under results_lock, then return True
\* (after a reply) or False; the worker's loop goes on
PerfAppend(w) ==
    /\ pw[w].pc \in {"append_ok", "append_fail"}
    /\ perf_results' = Append(perf_results, [pkt_id |-> pw[w].pkt_id,
                                             duration |-> pw[w].duration])
    /\ perf_calls' = perf_calls \cup
          {[pkt_id |-> pw[w].pkt_id,
            value |-> IF pw[w].pc = "append_ok" THEN "True" ELSE "False",
            attempts |-> pw[w].attempts, replies |-> pw[w].replies,
            delta |-> pw[w].delta]}
    /\ pw' = [pw EXCEPT ![w].pc = "loop", ![w].k = @ + 1]
    /\ UNCHANGED <<quietperf, perf_pc, perf_i, perf_id, perf_stats>>

NextPerf ==
    \/ PerfSubmit
    \/ PerfWait
    \/ \E w \in PerfWorkers : PerfCall(w)
    \/ \E w \in PerfWorkers : PerfWhile(w)
    \/ \E w \in PerfWorkers : PerfAttempt(w)
    \/ \E w \in PerfWorkers : PerfSleep(w)
    \/ \E w \in PerfWorkers : PerfAppend(w)

SpecPerf == InitPerf /\ [][NextPerf]_vars

\* ------------------------------------------- categorize_response_time

InitCat ==
    /\ Idle
    /\ IdleRamp
    /\ IdlePerf
    /\ pct_in = <<>>
    /\ pct_out = <<>>
    /\ cat_in \in 0..MaxMs
    /\ cat_out = ""

\* category = categorize_response_time(duration) of bench.py send_auth_request
ApplyCategorize ==
    /\ cat_out = ""
    /\ cat_out' = categorize_response_time(cat_in)
    /\ UNCHANGED <<runvars, pctvars, rampvars, perfvars, cat_in>>

NextCat == ApplyCategorize

SpecCat == InitCat /\ [][NextCat]_vars

\* ============================================================== claims

\* run_test has returned (main may have left its loop since)
Returned == pc \in {"returned", "exit"}

\* the tasks (not the sentinels) of a queue history, in order
TasksOf(seq) == SelectSeq(seq, LAMBDA x : x # NoneItem)

SentinelsOf(seq) == SelectSeq(seq, LAMBDA x : x = NoneItem)

PktIds == {results[k].pkt_id : k \in DOMAIN results}

\* C1: in bench.py, when run_test has returned, total_sent equals
\* total_succeeded + total_failed + total_no_reply, whatever the number of
\* workers and tasks, the interleaving and the outcome of each exchange.
C1_Accounting ==
    (variant = "bench" /\ Returned) =>
        stats.total_sent =
            stats.total_succeeded + stats.total_failed + stats.total_no_reply

\* a step of two workers has returned with a timeout and a failure counted
C1_Witness ==
    /\ variant = "bench"
    /\ pc = "returned"
    /\ workers >= 2
    /\ stats.total_sent >= 2
    /\ stats.total_no_reply >= 1
    /\ stats.total_failed >= 1

\* C2: in bench.py, when run_test has returned, results holds exactly one
\* record per task the dispatcher put on the queue: as many records as tasks
\* enqueued, every enqueued task taken into send_auth_request once, and one
\* record for each pkt_id handed out.
C2_OneResultPerTask ==
    (variant = "bench" /\ Returned) =>
        /\ Len(results) = Len(TasksOf(enqueued))
        /\ Len(assigned) = Len(TasksOf(enqueued))
        /\ {assigned[k].task : k \in DOMAIN assigned}
              = {enqueued[k] : k \in DOMAIN enqueued} \ {NoneItem}
        /\ PktIds = {assigned[k].pkt_id : k \in DOMAIN assigned}
        /\ Cardinality(PktIds) = Len(results)

\* a step has returned with records of exchanges that did not succeed
C2_Witness ==
    /\ variant = "bench"
    /\ pc = "returned"
    /\ Len(results) >= 2
    /\ \E k \in DOMAIN results : results[k].status = "failed"
    /\ \E k \in DOMAIN results : results[k].status = "no_reply"

\* C3: in bench.py, for a step that processed n tasks, the pkt_id values in
\* results are exactly 0..n-1, each once, under every interleaving of the
\* workers.
C3_ContiguousIds ==
    (variant = "bench" /\ Returned) =>
        /\ Len(results) = Len(TasksOf(dequeued))
        /\ PktIds = 0..(Len(results) - 1)

\* two workers have finished a step whose records are not in pkt_id order
C3_Witness ==
    /\ variant = "bench"
    /\ pc = "returned"
    /\ workers >= 2
    /\ Len(results) >= 2
    /\ results[1].pkt_id > results[2].pkt_id

\* the pkt_id order of the tasks is their dispatch order
DispatchOrder ==
    \A a, b \in DOMAIN assigned :
        assigned[a].task < assigned[b].task => assigned[a].pkt_id < assigned[b].pkt_id

\* C4 as claimed: a task put on the queue before another gets the smaller
\* pkt_id, for every interleaving of two or more workers.
C4_DispatchOrder == variant = "bench" => DispatchOrder

\* C4 amended: the k-th request to take packet_id_lock in a step gets
\* pkt_id k-1, so pkt_ids increase in the order the workers enter
\* send_auth_request; that is the dispatch order when one worker runs.
C4_LockOrder ==
    variant = "bench" =>
        /\ \A k \in DOMAIN assigned : assigned[k].pkt_id = k - 1
        /\ workers = 1 => DispatchOrder

\* with two workers, two tasks have got their pkt_ids
C4_Witness ==
    /\ variant = "bench"
    /\ workers >= 2
    /\ Len(assigned) >= 2
    /\ wpc[1] # "get"
    /\ wpc[2] # "get"

\* what the dispatcher puts when its loop is not cut short
ExpectedPuts ==
    [k \in 1..(TotalTasks + workers) |-> IF k <= TotalTasks THEN k - 1 ELSE NoneItem]

\* the dispatcher is past its two loops, or run_test has raised
DispatchOver == pc \in {"join", "returned", "exit", "raised"}

\* C5: in run_test (bench.py and experiment.py), when test_end_time is not
\* exceeded, the dispatcher puts exactly rps * duration tasks and then exactly
\* one sentinel per worker, every sentinel after the last task.
C5_ExactDispatch == (DispatchOver /\ ~truncated) => enqueued = ExpectedPuts

\* C6 as claimed: task k (from 0) is put no earlier than
\* start_time + (k + 1) / rps.
C6_AfterOwnDeadline ==
    \A k \in DOMAIN put_time : put_time[k] * rps >= start_time * rps + k

\* C6 amended: task k (from 0) is put no earlier than start_time + k / rps,
\* the deadline the dispatcher waited for after putting task k - 1.
C6_AfterPreviousDeadline ==
    \A k \in DOMAIN put_time : put_time[k] * rps >= start_time * rps + (k - 1)

\* a second task has been put, later than the first
C6_Witness ==
    /\ Len(put_time) >= 2
    /\ put_time[2] > put_time[1]

\* C7: once the clock read at the top of a dispatch iteration is past
\* test_end_time the dispatcher puts no further task and goes on to the
\* sentinels, one per worker; the tasks put are at most rps * duration and
\* run_test still returns with every worker finished.
C7_Truncation ==
    /\ [](/\ Len(TasksOf(enqueued)) <= TotalTasks
          /\ (truncated /\ pc \in {"join", "returned", "exit"}) =>
                 /\ Len(TasksOf(enqueued)) < TotalTasks
                 /\ Len(SentinelsOf(enqueued)) = workers
          /\ (truncated /\ Returned) => \A w \in 1..workers : wpc[w] = "done")
    /\ [][((pc = "check" /\ i < TotalTasks /\ now > start_time + duration)
            \/ truncated) =>
              /\ (TasksOf(enqueued') = TasksOf(enqueued) \/ pc' = "call")
              /\ (pc = "check" /\ pc' # pc) => (pc' = "sentinels" /\ truncated')]_vars

\* a step cut short has returned with fewer tasks than rps * duration
C7_Witness ==
    /\ truncated
    /\ pc = "returned"
    /\ Len(TasksOf(enqueued)) >= 1
    /\ Len(TasksOf(enqueued)) < TotalTasks

\* C8: the task queue never holds more than 2 * workers items, and no task is
\* dropped or reordered: what the workers have dequeued, followed by what is
\* still queued, is what the dispatcher put, tasks 0, 1, 2, ... in order; when
\* run_test has returned everything put has been dequeued.
C8_BoundedFifo ==
    /\ Len(task_queue) <= 2 * workers
    /\ dequeued \o task_queue = enqueued
    /\ TasksOf(enqueued) = [k \in 1..Len(TasksOf(enqueued)) |-> k - 1]
    /\ Returned => dequeued = enqueued

\* the dispatcher holds a task it cannot put: the queue is full
C8_Witness ==
    /\ pc = "put"
    /\ Len(task_queue) = 2 * workers
    /\ Len(TasksOf(dequeued)) + Len(task_queue) < TotalTasks

\* C9: run_test returns only after every worker has dequeued a sentinel and
\* exited: once it has returned no worker is in send_auth_request, the queue
\* is empty, and nothing changes stats, results or packet_id_counter until
\* main starts the next step.
C9_ReturnIsFinal ==
    /\ [](Returned =>
            /\ \A w \in 1..workers : wpc[w] = "done"
            /\ Len(SentinelsOf(dequeued)) = workers
            /\ task_queue = <<>>)
    /\ [][(Returned /\ pc' # "call") =>
              UNCHANGED <<stats, results, packet_id_counter, exp_times>>]_vars

\* run_test has returned from a step in which two workers made exchanges
C9_Witness ==
    /\ pc = "returned"
    /\ workers >= 2
    /\ stats.total_sent >= 2
    /\ \E k \in DOMAIN assigned : k >= 2

\* ceil(p * n / 100) - 1, never below 0
NearestRankIndex(n, p) ==
    LET idx == ((n * p + 99) \div 100) - 1 IN IF idx < 0 THEN 0 ELSE idx

\* the nearest-rank percentile of a non-empty list, in milliseconds
NearestRank(durs, p) == 1000 * At(Sorted(durs), NearestRankIndex(Len(durs), p))

\* C10: for every sample count n >= 1 the percentile computations return the
\* element at index ceil(p * n) - 1 of the sorted durations, for P95 and P99.
C10_NearestRank ==
    (pct_out # <<>> /\ pct_in # <<>>) =>
        /\ pct_out.reported
        /\ pct_out.p95 = NearestRank(pct_in, 95)
        /\ pct_out.site # "ramp" => pct_out.p99 = NearestRank(pct_in, 99)

\* C11: a step with rps * duration = 0 does not fail: run_test raises
\* nothing and returns having put no task, and the percentiles of its zero
\* samples are 0 and 0 (experiment.py), nothing being printed or compared
\* for the empty results of bench.py.
C11_ZeroSamples ==
    TotalTasks = 0 =>
        /\ pc # "raised"
        /\ Returned =>
              /\ TasksOf(enqueued) = <<>>
              /\ calculate_percentiles(exp_times) = [p95 |-> 0, p99 |-> 0]
              /\ ~PrintedPercentiles(DurationsOf(results)).printed
              /\ ~RampP95(DurationsOf(results)).compared

\* the last SLO check found a P95 strictly above the SLO
LastViolates ==
    /\ evaluated # <<>>
    /\ evaluated[Len(evaluated)].compared
    /\ evaluated[Len(evaluated)].p95 > slo_ms

\* C12: in ramp mode the first step whose computed P95 is strictly above the
\* SLO is the last step executed: the ramp is stopped, the violation is
\* reported at that step's rps, and run_test has been called for no later or
\* higher rate; the ramp is stopped only by such a step, never by a P95 equal
\* to or below the SLO.
C12_StopAtFirstViolation ==
    /\ \A k \in DOMAIN evaluated :
          (evaluated[k].compared /\ evaluated[k].p95 > slo_ms) =>
              /\ k = Len(evaluated)
              /\ pc = "stopped"
              /\ Len(executed) = k
              /\ executed[k] = evaluated[k].rps
              /\ \A j \in DOMAIN executed : executed[j] <= evaluated[k].rps
              /\ report[Len(report)] = [kind |-> "slo_violated", rps |-> evaluated[k].rps]
    /\ pc = "stopped" =>
          /\ LastViolates
          /\ RampP95(DurationsOf(results)).compared
          /\ RampP95(DurationsOf(results)).p95 = evaluated[Len(evaluated)].p95

\* the ramp went on after a step whose P95 equalled the SLO and was stopped
\* by the next step
C12_Witness ==
    /\ pc = "stopped"
    /\ Len(evaluated) >= 2
    /\ evaluated[1].compared
    /\ evaluated[1].p95 = slo_ms

Reported(kind) == \E k \in DOMAIN report : report[k].kind = kind

\* no SLO check so far found a P95 above the SLO
NoViolation ==
    \A k \in DOMAIN evaluated : ~(evaluated[k].compared /\ evaluated[k].p95 > slo_ms)

\* C13: in ramp mode the rates run_test is called with are start_rps,
\* start_rps + step_rps, ..., strictly ascending, none above max_rps and none
\* twice; Completed is reported exactly when, at the head of the loop, the
\* next rate exceeds max_rps, and then no executed step has violated the SLO;
\* Completed and the SLO violation are never both reported.
C13_RampSequence ==
    /\ [](/\ \A k \in DOMAIN executed :
                /\ executed[k] = start_rps + (k - 1) * step_rps
                /\ executed[k] <= max_rps
          /\ \A j, k \in DOMAIN executed : j < k => executed[j] < executed[k]
          /\ Reported("completed") =>
                /\ pc = "completed"
                /\ start_rps + Len(executed) * step_rps > max_rps
                /\ Len(evaluated) = Len(executed)
                /\ NoViolation
          /\ pc = "main" => NoViolation
          /\ ~(Reported("completed") /\ Reported("slo_violated")))
    /\ [][pc = "main" =>
             /\ pc' = "completed" <=> start_rps + Len(executed) * step_rps > max_rps
             /\ pc' = "completed" <=> Reported("completed")']_vars

\* a ramp of several steps has completed with its last step at max_rps
C13_Witness ==
    /\ pc = "completed"
    /\ Len(executed) >= 2
    /\ executed[Len(executed)] = max_rps
    /\ Reported("completed")

\* C14: in ramp mode, when run_test is called for a step the four counters
\* are 0, the bucket map and results are empty and packet_id_counter is 0;
\* after the step results holds the records of that step only, and the P95 of
\* the SLO check is the P95 of those records.
C14_FreshStep ==
    /\ pc = "call" =>
          /\ stats = ZeroStats
          /\ results = <<>>
          /\ packet_id_counter = 0
    /\ pc \in {"returned", "printed", "stopped"} =>
          /\ results = step_recs
          /\ stats.total_sent = Len(step_recs)
          /\ packet_id_counter = Len(step_recs)
    /\ (pc \in {"main", "stopped", "completed"} /\ evaluated # <<>>) =>
          /\ evaluated[Len(evaluated)].compared
                = RampP95(DurationsOf(step_recs)).compared
          /\ evaluated[Len(evaluated)].p95 = RampP95(DurationsOf(step_recs)).p95

\* run_test is about to be called after a step whose P95 was compared
C14_Witness ==
    /\ pc = "call"
    /\ evaluated # <<>>
    /\ evaluated[1].compared
    /\ Len(executed) = Len(evaluated)

\* C15: request failures never end a ramp: the ramp loop is left before the
\* range is exhausted only by the SLO check finding a P95 above the SLO; after
\* any other step, whatever the outcomes of its requests, the loop goes on to
\* its next iteration.
C15_OnlySloEndsRamp ==
    /\ pc \in {"stopped", "raised"} => LastViolates
    /\ (evaluated # <<>> /\ Len(evaluated) = Len(executed) /\ ~LastViolates) =>
          pc \in {"main", "call", "completed"}

\* 1 when the exchange just ended with this status, else 0
Counted(status, w) == IF wloc[w].status = status THEN 1 ELSE 0

\* C16: in bench.py every exchange ends as exactly one of succeeded, no_reply
\* and failed and adds 1 to the counter of that outcome and nothing to the
\* other two; the worker never leaves send_auth_request by an exception: from
\* the exchange it goes on to the record and from there to its next get.
C16_OneOutcome ==
    /\ [](variant = "bench" =>
            \A w \in Workers :
               /\ wpc[w] \in {"none", "get", "send", "exchange", "record", "append", "done"}
               /\ wpc[w] \in {"record", "append"} =>
                     wloc[w].status \in {"succeeded", "no_reply", "failed"})
    /\ [][variant = "bench" =>
            \A w \in Workers :
               /\ (wpc[w] = "exchange" /\ wpc'[w] # "exchange") =>
                     /\ wpc'[w] = "record"
                     /\ stats'.total_succeeded
                           = stats.total_succeeded + Counted("succeeded", w)'
                     /\ stats'.total_no_reply
                           = stats.total_no_reply + Counted("no_reply", w)'
                     /\ stats'.total_failed
                           = stats.total_failed + Counted("failed", w)'
                     /\ stats'.total_sent = stats.total_sent
               /\ (wpc[w] = "record" /\ wpc'[w] # "record") => wpc'[w] = "append"
               /\ (wpc[w] = "append" /\ wpc'[w] # "append") => wpc'[w] = "get"]_vars

\* the one worker of a step is in its next exchange after a timeout and a
\* failure
C16_Witness ==
    /\ variant = "bench"
    /\ workers = 1
    /\ wpc[1] = "exchange"
    /\ Len(results) >= 2
    /\ results[1].status = "no_reply"
    /\ results[2].status = "failed"

\* the worker is inside a call of perf.py's send_auth_request
InCall(w) == pw[w].pc \in {"while", "attempt", "sleep", "append_ok", "append_fail"}

\* the records of results with this pkt_id
RecordsOf(id) == {k \in DOMAIN perf_results : perf_results[k].pkt_id = id}

\* C17: in perf.py a call of send_auth_request with max_retries = m makes at
\* most m + 1 attempts and none after a reply; every failed attempt either
\* ends the call or uses up one of the m retries, so the call ends; it appends
\* no record before its end and exactly one at its end, and returns True when
\* an attempt got a reply and False (after exactly m + 1 attempts) when none
\* did.
C17_BoundedRetries ==
    /\ [](/\ \A w \in PerfWorkers :
                /\ pw[w].attempts <= perf_retries + 1
                /\ pw[w].replies <= 1
                /\ pw[w].replies = 1 => pw[w].pc \in {"append_ok", "loop", "done"}
                /\ InCall(w) => RecordsOf(pw[w].pkt_id) = {}
          /\ \A c \in perf_calls :
                /\ c.value \in {"True", "False"}
                /\ c.attempts >= 1
                /\ c.attempts <= perf_retries + 1
                /\ c.value = "True" <=> c.replies = 1
                /\ c.value = "False" => (c.replies = 0 /\ c.attempts = perf_retries + 1)
                /\ Cardinality(RecordsOf(c.pkt_id)) = 1)
    /\ [][\A w \in PerfWorkers :
             (pw[w].pc = "attempt" /\ pw'[w] # pw[w]) =>
                 \/ pw'[w].pc \in {"append_ok", "append_fail"}
                 \/ /\ pw'[w].pc = "sleep"
                    /\ pw'[w].retries = pw[w].retries + 1
                    /\ pw'[w].retries <= perf_retries
                    /\ perf_results' = perf_results]_vars

\* one call has returned True at its third attempt or later, another False
\* after all its attempts
C17_Witness ==
    /\ perf_retries >= 2
    /\ \E c \in perf_calls : c.value = "True" /\ c.attempts >= 3
    /\ \E c \in perf_calls : c.value = "False" /\ c.attempts = perf_retries + 1

\* the three outcome counters of perf.py's stats or of a call's additions
OutcomeSum(rec) == rec.total_succeeded + rec.total_failed + rec.total_no_reply

\* C18: in perf.py every call of send_auth_request that has returned has
\* added exactly 1 to total_sent and exactly 1 to exactly one of
\* total_succeeded, total_failed and total_no_reply, whatever max_retries and
\* the outcomes of its attempts; so whenever no call is in progress, and when
\* all workers have finished, total_sent equals the sum of the three.
C18_PerfAccounting ==
    /\ \A c \in perf_calls :
          /\ c.delta.total_sent = 1
          /\ OutcomeSum(c.delta) = 1
          /\ c.delta.total_succeeded >= 0
          /\ c.delta.total_failed >= 0
          /\ c.delta.total_no_reply >= 0
    /\ (\A w \in PerfWorkers : ~InCall(w)) =>
          /\ perf_stats.total_sent = Cardinality(perf_calls)
          /\ perf_stats.total_sent = OutcomeSum(perf_stats)
    /\ perf_pc = "done" =>
          /\ perf_stats.total_sent = perf_count
          /\ perf_stats.total_sent = OutcomeSum(perf_stats)

\* perf.py has finished with retries made and each of the outcomes counted
C18_Witness ==
    /\ perf_pc = "done"
    /\ perf_stats.total_sent >= 3
    /\ perf_stats.total_retransmits >= 1
    /\ perf_stats.total_succeeded >= 1
    /\ perf_stats.total_failed >= 1
    /\ perf_stats.total_no_reply >= 1

\* the ordered thresholds, in milliseconds, and the labels of their buckets
Thresholds == <<10, 50, 100, 200, 500, 1000>>

Labels == <<"< 10ms", "< 50ms", "< 100ms", "< 200ms", "< 500ms", "< 1s">>

\* the label of the first threshold the duration is strictly below
FirstBelow(ms) ==
    LET below == {k \in DOMAIN Thresholds : ms < Thresholds[k]}
    IN  IF below = {} THEN ">= 1s"
        ELSE Labels[CHOOSE k \in below : \A j \in below : k <= j]

\* C19: bench.py's categorize_response_time returns, for every duration, the
\* label of the first of the thresholds 10ms, 50ms, 100ms, 200ms, 500ms, 1s
\* the duration is strictly below, and ">= 1s" when there is none; a duration
\* equal to a threshold gets the next higher bucket; the label is one of the
\* seven print_statistics reports.
C19_FirstThreshold ==
    cat_out # "" =>
        /\ cat_out = FirstBelow(cat_in)
        /\ cat_out \in Categories
        /\ \A k \in DOMAIN Thresholds :
              cat_in = Thresholds[k] =>
                  cat_out = IF k < Len(Labels) THEN Labels[k + 1] ELSE ">= 1s"

\* a duration of exactly 200 ms has been categorized
C19_Witness ==
    /\ cat_in = 200
    /\ cat_out = "< 500ms"

\* the dispatcher is in its dispatch loop
Dispatching == pc \in {"check", "put", "pace", "sleep"}

\* C20: the pacing of run_test is drift-free: after putting task i the
\* dispatcher sleeps exactly when the clock is before start_time + (i + 1) / rps
\* and wakes no earlier than that deadline, start_time and rps being those of
\* the step's start; when the deadline has passed it goes on without waiting,
\* however late the put was; and task k is never put before
\* start_time + k / rps.
C20_DriftFree ==
    /\ [](Dispatching =>
             \A k \in DOMAIN put_time : put_time[k] * rps >= start_time * rps + (k - 1))
    /\ [][(pc = "pace" /\ pc' # "pace") =>
             /\ pc' = "sleep" <=> now * rps < start_time * rps + (i + 1)
             /\ pc' # "sleep" => (pc' = "check" /\ i' = i + 1 /\ now' = now)]_vars
    /\ [][(pc = "sleep" /\ pc' # "sleep") =>
             /\ now * rps >= start_time * rps + (i + 1)
             /\ pc' = "check"
             /\ i' = i + 1]_vars
    /\ [][(Dispatching /\ Dispatching') =>
             (start_time' = start_time /\ rps' = rps)]_vars

\* the put of a task was late by a whole interval or more, and the next task
\* was put without any wait
C20_Witness ==
    /\ Len(put_time) >= 3
    /\ put_time[2] * rps >= start_time * rps + 2
    /\ put_time[3] = put_time[2]

\* the SLO check of the current step has been made
StepEvaluated == pc \in {"main", "stopped", "completed"} /\ evaluated # <<>>

\* C21: in ramp mode every step that produced at least one record has its P95
\* compared with the SLO; a step with exactly one record, whose duration is
\* above the SLO, stops the ramp with the violation reported.
C21_SingleResultCompared ==
    StepEvaluated =>
        /\ step_recs # <<>> => evaluated[Len(evaluated)].compared
        /\ (Len(step_recs) = 1 /\ 1000 * step_recs[1].duration > slo_ms) =>
              /\ pc = "stopped"
              /\ Reported("slo_violated")

\* the statistics reports of the ramp, in order
ResultsReports == SelectSeq(report, LAMBDA e : e.kind = "results")

\* C22: in ramp mode the statistics of a step are reported after run_test
\* has returned for it and before its SLO check: every SLO check, the one
\* that stops the ramp included, is preceded by the report of the same step
\* and rps, and a report is only made for a step whose run_test has returned.
C22_ReportBeforeCheck ==
    /\ [](/\ Len(ResultsReports) = Len(evaluated) + (IF pc = "printed" THEN 1 ELSE 0)
          /\ \A k \in DOMAIN evaluated : ResultsReports[k].rps = evaluated[k].rps
          /\ \A k \in DOMAIN ResultsReports : ResultsReports[k].rps = executed[k]
          /\ \A k \in DOMAIN report :
                report[k].kind = "slo_violated" =>
                    /\ k > 1
                    /\ report[k - 1] = [kind |-> "results", rps |-> report[k].rps])
    /\ [][Len(ResultsReports') > Len(ResultsReports) =>
             (pc = "returned" /\ Len(executed) = Len(ResultsReports'))]_vars
    /\ [][evaluated' # evaluated =>
             /\ pc = "printed"
             /\ report[Len(report)] = [kind |-> "results", rps |-> rps]]_vars

\* the ramp was stopped by its second step or a later one, whose statistics
\* were reported just before the violation
C22_Witness ==
    /\ pc = "stopped"
    /\ Len(evaluated) >= 2
    /\ Len(report) >= 3
    /\ report[Len(report) - 1] = [kind |-> "results", rps |-> rps]
    /\ report[Len(report)].kind = "slo_violated"

\* C23: in perf.py every call of send_auth_request adds to total_retransmits
\* exactly the number of attempts it made after the first: 0 when the first
\* attempt got the reply, k when attempt k + 1 did, max_retries when every
\* attempt failed.
C23_Retransmits ==
    \A c \in perf_calls :
        /\ c.delta.total_retransmits = c.attempts - 1
        /\ c.value = "False" => c.delta.total_retransmits = perf_retries

\* no worker thread of any step is alive
NoWorkerAlive == \A w \in Workers : wpc[w] \in {"none", "done"}

\* C24: main resets the stats and reads them (achieved rate, percentiles, SLO
\* check) only while it is outside run_test, and then no worker thread is
\* alive: stats, results and packet_id_counter change either by the reset,
\* made with no worker alive, or by a worker while main is inside run_test's
\* loops; when run_test has returned they hold the updates of every task of
\* this step and of no other.
C24_QuiescentReads ==
    /\ [](/\ pc \in {"main", "call", "returned", "exit"} => NoWorkerAlive
          /\ Returned =>
                /\ stats.total_sent = Len(TasksOf(enqueued))
                /\ variant = "bench" => Len(results) = Len(TasksOf(enqueued))
                /\ variant = "experiment" => Len(exp_times) = Len(TasksOf(enqueued)))
    /\ [][(<<stats, results, exp_times, packet_id_counter>>'
              # <<stats, results, exp_times, packet_id_counter>>) =>
             \/ /\ pc \in {"main", "returned"}
                /\ pc' = "call"
                /\ NoWorkerAlive
                /\ stats' = ZeroStats
                /\ results' = <<>>
                /\ exp_times' = <<>>
                /\ packet_id_counter' = 0
             \/ /\ pc \in {"check", "put", "pace", "sleep", "sentinels", "join"}
                /\ pc' = pc
                /\ ~NoWorkerAlive]_vars

\* run_test of experiment.py has returned from a step in which two workers
\* recorded durations
C24_Witness ==
    /\ variant = "experiment"
    /\ pc = "returned"
    /\ workers >= 2
    /\ Len(exp_times) >= 2
    /\ stats.total_no_reply >= 1

\* the pkt_ids worker w was handed: [start_id, start_id + count)
IdRange(w) ==
    IF pw[w].pc = "none" THEN {}
    ELSE pw[w].start_id .. (pw[w].start_id + pw[w].count - 1)

RECURSIVE SumCounts(_)
SumCounts(n) == IF n = 0 THEN 0 ELSE pw[n].count + SumCounts(n - 1)

\* C25: in perf.py, once main has submitted its workers, their id ranges are
\* pairwise disjoint and their union is 1..count, the counts of the
\* parallel workers differ by at most 1 and sum to count; when all futures
\* have completed the pkt_ids in results are 1..count, each once.
C25_IdRanges ==
    /\ perf_pc \in {"wait", "done"} =>
          /\ \A v, w \in PerfWorkers : v # w => IdRange(v) \cap IdRange(w) = {}
          /\ UNION {IdRange(w) : w \in PerfWorkers} = 1..perf_count
          /\ \A v, w \in 1..perf_parallel :
                /\ pw[v].count - pw[w].count <= 1
                /\ pw[w].count - pw[v].count <= 1
          /\ SumCounts(MaxParallel) = perf_count
    /\ perf_pc = "done" =>
          /\ {perf_results[k].pkt_id : k \in DOMAIN perf_results} = 1..perf_count
          /\ Len(perf_results) = perf_count

\* perf.py has finished 3 packets on 2 workers, the records not in pkt_id
\* order
C25_Witness ==
    /\ perf_pc = "done"
    /\ perf_count = 3
    /\ perf_parallel = 2
    /\ perf_results[1].pkt_id = 3

\* the dispatcher waits in task_queue.put while no worker can make room
DispatcherStuck ==
    /\ \/ pc = "put"
       \/ pc = "sentinels" /\ nsent < workers
    /\ Len(task_queue) >= Capacity
    /\ \A w \in 1..workers :
          \/ wpc[w] = "done"
          \/ wpc[w] = "get" /\ task_queue = <<>>

\* C26: under weak fairness of the dispatcher, of each worker and of the
\* clock, every call of run_test reaches the state where its workers have
\* exited and its joins have returned, and the dispatcher is never blocked on
\* a full queue while every worker is blocked or has exited.
C26_Terminates ==
    /\ (pc = "call") ~> (pc = "returned")
    /\ [](~DispatcherStuck)

\* the workers that have left their loop
Exited == {w \in Workers : wpc[w] = "done"}

\* C27: in run_test each worker dequeues one sentinel, on which it exits, and
\* none after it; a sentinel is dequeued only when the dispatch loop is over
\* and every task that was put has been dequeued, so that no task is in the
\* queue behind it; when the last worker has exited the queue is empty and
\* every task put has been dequeued and sent.
C27_SentinelsLast ==
    /\ [](/\ Len(SentinelsOf(dequeued)) = Cardinality(Exited)
          /\ SentinelsOf(dequeued) # <<>> =>
                /\ pc \in {"sentinels", "join", "returned", "exit"}
                /\ TasksOf(task_queue) = <<>>
                /\ TasksOf(dequeued) = TasksOf(enqueued)
          /\ (pc # "call" /\ Exited = 1..workers) =>
                /\ task_queue = <<>>
                /\ Len(SentinelsOf(dequeued)) = workers
                /\ stats.total_sent = Len(TasksOf(enqueued)))
    /\ [][Len(SentinelsOf(dequeued')) > Len(SentinelsOf(dequeued)) =>
             \E w \in 1..workers :
                /\ wpc[w] = "get"
                /\ wpc'[w] = "done"
                /\ \A v \in Workers \ {w} : wpc'[v] = wpc[v]
                /\ Len(SentinelsOf(dequeued')) = Len(SentinelsOf(dequeued)) + 1
                /\ TasksOf(task_queue) = <<>>
                /\ TasksOf(dequeued) = TasksOf(enqueued)]_vars

\* one of two workers has dequeued its sentinel and exited while the other
\* is still sending the last of three tasks
C27_Witness ==
    /\ workers = 2
    /\ Cardinality(Exited) = 1
    /\ Len(TasksOf(enqueued)) = 3
    /\ \E w \in 1..workers : wpc[w] \in {"send", "exchange", "record"}
    /\ \E k \in DOMAIN task_queue : task_queue[k] = NoneItem

RECURSIVE SumOver(_, _)
SumOver(f, S) ==
    IF S = {} THEN 0
    ELSE LET c == CHOOSE x \in S : TRUE
         IN  f[c] + SumOver(f, S \ {c})

\* the requests counted in the latency buckets of stats['response_times']
BucketSum(s) == SumOver(s.response_times, DOMAIN s.response_times)

\* C28: in bench.py, in every reachable state, also while workers are sending,
\* the counts of the latency buckets of stats['response_times'] add up to
\* stats['total_sent'].
C28_BucketsSumToSent ==
    variant = "bench" => BucketSum(stats) = stats.total_sent

\* bench.py in the middle of a step: requests were counted in two different
\* buckets, one worker has counted its outcome but not yet total_sent, and
\* the dispatcher is still in its loop
C28_Witness ==
    /\ variant = "bench"
    /\ pc \in {"check", "put", "pace", "sleep"}
    /\ stats.response_times["< 10ms"] >= 1
    /\ stats.response_times[">= 1s"] >= 1
    /\ \E w \in 1..workers : wpc[w] = "record"
=============================================================================
